---- MODULE Spec2Model ----
(***************************************************************************)
(* Model of the DBLP citation matcher of dblp-from-pdf.py (PDF ingestion)  *)
(* and dblp-norm.py (BibTeX normalization): the author normalizer, the two *)
(* author-list similarity scorers, fetch_dblp_entry and the two workflow    *)
(* loops.                                                                  *)
(*                                                                         *)
(* A Python string is a sequence of one-character strings.  A Python value *)
(* is a record [t, v]: t is the type ("None", "str", "list", "dict") and v *)
(* the content (the characters, the elements, the <<key, value>> items).   *)
(***************************************************************************)
EXTENDS Integers, Sequences, FiniteSets, TLC

\* ------------------------------------------------------------------------
\* Python strings

UpperCase == <<"A","B","C","D","E","F","G","H","I","J","K","L","M",
               "N","O","P","Q","R","S","T","U","V","W","X","Y","Z">>

LowerCase == <<"a","b","c","d","e","f","g","h","i","j","k","l","m",
               "n","o","p","q","r","s","t","u","v","w","x","y","z">>

\* The word characters of an already lowercased ASCII string, in code-point order.
WordChars == <<"0","1","2","3","4","5","6","7","8","9","_">> \o LowerCase

Whitespace == {" ", "\t", "\n"}

Range(s) == {s[i] : i \in DOMAIN s}

WordCharSet == Range(WordChars)

Max(a, b) == IF a >= b THEN a ELSE b

\* str.lower() on one character
lower_char(c) ==
    IF \E i \in DOMAIN UpperCase : UpperCase[i] = c
    THEN LowerCase[CHOOSE i \in DOMAIN UpperCase : UpperCase[i] = c]
    ELSE c

\* str.lower()
str_lower(s) == [i \in DOMAIN s |-> lower_char(s[i])]

RECURSIVE str_split_from(_, _, _)
str_split_from(s, cur, acc) ==
    IF s = <<>>
    THEN IF cur = <<>> THEN acc ELSE Append(acc, cur)
    ELSE IF Head(s) \in Whitespace
         THEN str_split_from(Tail(s), <<>>, IF cur = <<>> THEN acc ELSE Append(acc, cur))
         ELSE str_split_from(Tail(s), Append(cur, Head(s)), acc)

\* str.split(): the maximal runs of non-whitespace characters
str_split(s) == str_split_from(s, <<>>, <<>>)

RECURSIVE str_join(_, _)
\* sep.join(parts)
str_join(sep, parts) ==
    IF parts = <<>> THEN <<>>
    ELSE IF Len(parts) = 1 THEN parts[1]
    ELSE parts[1] \o sep \o str_join(sep, Tail(parts))

starts_with(s, p) == Len(s) >= Len(p) /\ SubSeq(s, 1, Len(p)) = p

RECURSIVE str_split_sep_from(_, _, _, _)
str_split_sep_from(s, sep, cur, acc) ==
    IF s = <<>> THEN Append(acc, cur)
    ELSE IF starts_with(s, sep)
         THEN str_split_sep_from(SubSeq(s, Len(sep) + 1, Len(s)), sep, <<>>, Append(acc, cur))
         ELSE str_split_sep_from(Tail(s), sep, Append(cur, Head(s)), acc)

\* s.split(sep) for a nonempty literal separator: always at least one piece
str_split_sep(s, sep) == str_split_sep_from(s, sep, <<>>, <<>>)

\* needle in hay
str_contains(hay, needle) ==
    \E i \in 0..(Len(hay) - Len(needle)) : SubSeq(hay, i + 1, i + Len(needle)) = needle

RECURSIVE str_strip_left(_)
str_strip_left(s) ==
    IF s # <<>> /\ Head(s) \in Whitespace THEN str_strip_left(Tail(s)) ELSE s

RECURSIVE str_strip_right(_)
str_strip_right(s) ==
    IF s # <<>> /\ s[Len(s)] \in Whitespace
    THEN str_strip_right(SubSeq(s, 1, Len(s) - 1)) ELSE s

\* str.strip()
str_strip(s) == str_strip_right(str_strip_left(s))

\* ------------------------------------------------------------------------
\* fuzzywuzzy (the library the two scripts import): fuzz.token_sort_ratio and
\* process.extractOne with scorer=fuzz.token_sort_ratio.

char_ord(c) == CHOOSE i \in DOMAIN WordChars : WordChars[i] = c

RECURSIVE str_lt(_, _)
\* a < b on strings of word characters
str_lt(a, b) ==
    IF b = <<>> THEN FALSE
    ELSE IF a = <<>> THEN TRUE
    ELSE IF Head(a) = Head(b) THEN str_lt(Tail(a), Tail(b))
    ELSE char_ord(Head(a)) < char_ord(Head(b))

RECURSIVE insert_sorted(_, _)
insert_sorted(x, xs) ==
    IF xs = <<>> THEN <<x>>
    ELSE IF str_lt(Head(xs), x) THEN <<Head(xs)>> \o insert_sorted(x, Tail(xs))
    ELSE <<x>> \o xs

RECURSIVE sorted(_)
\* sorted(tokens)
sorted(xs) == IF xs = <<>> THEN <<>> ELSE insert_sorted(Head(xs), sorted(Tail(xs)))

\* utils.full_process: every non-word character becomes a space, then lower(), strip()
full_process(s) ==
    LET low == str_lower(s)
    IN  str_strip([i \in DOMAIN s |->
                     IF low[i] \in WordCharSet THEN low[i] ELSE " "])

\* fuzz._process_and_sort
process_and_sort(s) == str_strip(str_join(<<" ">>, sorted(str_split(full_process(s)))))

RECURSIVE lcs_row(_, _, _, _)
\* One row of the longest-common-subsequence table; cur holds columns 0..Len(cur)-1.
lcs_row(prev, c, b, cur) ==
    LET j == Len(cur)
    IN  IF j > Len(b) THEN cur
        ELSE lcs_row(prev, c, b,
                     Append(cur, IF b[j] = c THEN prev[j] + 1
                                 ELSE Max(prev[j + 1], cur[j])))

RECURSIVE lcs_rows(_, _, _)
lcs_rows(a, b, prev) ==
    IF a = <<>> THEN prev[Len(b) + 1]
    ELSE lcs_rows(Tail(a), b, lcs_row(prev, Head(a), b, <<0>>))

\* The number of matched characters M of the sequence matcher.
matches(a, b) == lcs_rows(a, b, [j \in 1..(Len(b) + 1) |-> 0])

\* utils.intr(100 * 2.0 * M / T): int(round(x)), Python 3 rounding half to even
intr_ratio(m, t) ==
    LET q == (200 * m) \div t
        r == (200 * m) % t
    IN  IF 2 * r < t THEN q
        ELSE IF 2 * r > t THEN q + 1
        ELSE IF q % 2 = 0 THEN q ELSE q + 1

\* fuzz.ratio: 0 for an empty string, else the rounded 2*M/T percentage
ratio(s1, s2) ==
    IF Len(s1) = 0 \/ Len(s2) = 0 THEN 0
    ELSE intr_ratio(matches(s1, s2), Len(s1) + Len(s2))

\* fuzz.token_sort_ratio(s1, s2)
token_sort_ratio(s1, s2) == ratio(process_and_sort(s1), process_and_sort(s2))

RECURSIVE extract_best(_, _, _)
\* max(best_list, key=score): the first pair <<choice, score>> of maximal score
extract_best(query, choices, best) ==
    IF choices = <<>> THEN best
    ELSE LET score == token_sort_ratio(query, Head(choices))
         IN  IF best = <<>> \/ score > best[2]
             THEN extract_best(query, Tail(choices), <<Head(choices), score>>)
             ELSE extract_best(query, Tail(choices), best)

\* process.extractOne(query, choices, scorer=fuzz.token_sort_ratio): the first choice
\* of maximal score as <<choice, score>>, or <<>> (None) when there is no choice
extractOne(query, choices) == extract_best(query, choices, <<>>)

\* ------------------------------------------------------------------------
\* Python values

None == [t |-> "None", v |-> <<>>]
Str(s) == [t |-> "str", v |-> s]
List(xs) == [t |-> "list", v |-> xs]
Dict(items) == [t |-> "dict", v |-> items]

\* bool(x) for None, a str, a list, a dict
truthy(x) == x.t # "None" /\ x.v # <<>>

\* key in d
dict_has(d, k) == \E i \in DOMAIN d.v : d.v[i][1] = k

\* d[key], d.get(key, default)
dict_get(d, k, default) ==
    IF dict_has(d, k) THEN d.v[CHOOSE i \in DOMAIN d.v : d.v[i][1] = k][2] ELSE default

\* the elements a for-loop or comprehension draws: a list's elements, a dict's keys
py_iter(x) ==
    CASE x.t = "list" -> x.v
      [] x.t = "dict" -> [i \in DOMAIN x.v |-> Str(x.v[i][1])]

\* str(x) for a str and for None
py_str(x) ==
    CASE x.t = "str" -> x.v
      [] x.t = "None" -> <<"N", "o", "n", "e">>

\* the characters of a value that is a str
str_value(x) == CASE x.t = "str" -> x.v

k_text == <<"t", "e", "x", "t">>
k_author == <<"a", "u", "t", "h", "o", "r">>
k_pid == <<"@", "p", "i", "d">>
sep_and == <<" ", "a", "n", "d", " ">>

\* ------------------------------------------------------------------------
\* Scores: Python floats that are quotients of small integers, kept as reduced
\* fractions so that equal scores are equal records.

RECURSIVE gcd(_, _)
gcd(a, b) == IF b = 0 THEN a ELSE gcd(b, a % b)

Frac(n, d) == LET g == gcd(n, d) IN [n |-> n \div g, d |-> d \div g]
Score(n) == [n |-> n, d |-> 1]
score_ge(a, b) == a.n * b.d >= b.n * a.d
score_gt(a, b) == a.n * b.d > b.n * a.d
score_lt(a, b) == a.n * b.d < b.n * a.d

\* ------------------------------------------------------------------------
\* Author normalizer and similarity scorers

normalize_author_name(name) ==
    LET n == IF name.t = "dict" THEN dict_get(name, k_text, Str(<<>>)) ELSE name
    IN  str_join(<<" ">>, str_split(str_lower(py_str(n))))

\* authors.split(' and ') normalized element by element, or the iterated value
\* normalized element by element
split_and_normalize(authors) ==
    IF authors.t = "str"
    THEN LET parts == str_split_sep(authors.v, sep_and)
         IN  [i \in DOMAIN parts |-> normalize_author_name(Str(parts[i]))]
    ELSE LET elems == py_iter(authors)
         IN  [i \in DOMAIN elems |-> normalize_author_name(elems[i])]

\* dblp-from-pdf.py: the candidate side
authors2_names_pdf(authors2) ==
    IF authors2.t = "str" THEN split_and_normalize(authors2)
    ELSE IF authors2.t = "dict" /\ dict_has(authors2, k_author)
    THEN LET au == dict_get(authors2, k_author, None)
         IN  IF au.t = "list"
             THEN [i \in DOMAIN au.v |-> str_value(dict_get(au.v[i], k_text, Str(<<>>)))]
             ELSE <<str_value(dict_get(au, k_text, Str(<<>>)))>>
    ELSE split_and_normalize(authors2)

\* dblp-norm.py: the candidate side
authors2_names_norm(authors2) == split_and_normalize(authors2)

RECURSIVE sum_best(_, _)
sum_best(names1, names2) ==
    IF names1 = <<>> THEN 0
    ELSE LET best_match == extractOne(Head(names1), names2)
         IN  (IF best_match # <<>> THEN best_match[2] ELSE 0) + sum_best(Tail(names1), names2)

\* total_similarity / len(authors1)
average_best(names1, names2) == Frac(sum_best(names1, names2), Len(names1))

\* score_names_pdf testing the containment in one direction only
score_names_pdf_one_way(names1, names2) ==
    IF Len(names1) = 1 /\ Len(names2) = 1
    THEN IF names1[1] = names2[1] THEN Score(100)
         ELSE IF str_contains(names2[1], names1[1]) THEN Score(90)
         ELSE LET similarity == token_sort_ratio(names1[1], names2[1])
              IN  IF similarity > 60 THEN Score(similarity) ELSE Score(0)
    ELSE average_best(names1, names2)

\* dblp-from-pdf.py: the score of the two name lists
score_names_pdf(names1, names2) ==
    IF Len(names1) = 1 /\ Len(names2) = 1
    THEN IF names1[1] = names2[1] THEN Score(100)
         ELSE IF str_contains(names2[1], names1[1]) \/ str_contains(names1[1], names2[1])
         THEN Score(90)
         ELSE LET similarity == token_sort_ratio(names1[1], names2[1])
              IN  IF similarity > 60 THEN Score(similarity) ELSE Score(0)
    ELSE average_best(names1, names2)

\* score_names_norm with the single-author rule of dblp-from-pdf.py
score_names_norm_fast_path(names1, names2) == score_names_pdf(names1, names2)

\* dblp-norm.py: the score of the two name lists
score_names_norm(names1, names2) == average_best(names1, names2)

get_author_similarity_pdf(authors1, authors2) ==
    IF ~truthy(authors1) \/ ~truthy(authors2) THEN Score(0)
    ELSE score_names_pdf(split_and_normalize(authors1), authors2_names_pdf(authors2))

get_author_similarity_norm(authors1, authors2) ==
    IF ~truthy(authors1) \/ ~truthy(authors2) THEN Score(0)
    ELSE score_names_norm(split_and_normalize(authors1), authors2_names_norm(authors2))

\* ------------------------------------------------------------------------
\* Bounds and input pools

MaxHits == 2
MaxItems == 2
MaxAuthors == 2

FLOOR_PDF == 60
FLOOR_NORM == 70

\* Raw author names as they occur in a PDF, a BibTeX entry or a DBLP record.
n_AlBo == <<"A", "l", " ", "B", "o">>
n_alb == <<"a", "l", " ", "b">>
n_alcy == <<"a", "l", " ", " ", "c", "y">>
n_di == <<"d", "i">>

\* A DBLP author record {'@pid': ..., 'text': name}
author_record(name) == Dict(<< <<k_pid, Str(<<"1">>)>>, <<k_text, Str(name)>> >>)

\* info['authors'] of a DBLP hit: {'author': record} for one author,
\* {'author': [record, ...]} for several
dblp_authors(names) ==
    IF Len(names) = 1
    THEN Dict(<< <<k_author, author_record(names[1])>> >>)
    ELSE Dict(<< <<k_author, List([i \in DOMAIN names |-> author_record(names[i])])>> >>)

\* hit['info'] without an 'authors' key, and with one
info_without_authors(u) == [url |-> u, has_authors |-> FALSE, authors |-> None]
info_with_authors(u, names) == [url |-> u, has_authors |-> TRUE, authors |-> dblp_authors(names)]

\* The hit lists of at most MaxHits hits whose author fields come from author_fields
\* (<<>> stands for a hit without an author field); hit i carries the URL i.
HitListsOver(author_fields) ==
    UNION {{[i \in 1..k |-> [info |-> IF f[i] = <<>> THEN info_without_authors(i)
                                       ELSE info_with_authors(i, f[i])]] :
              f \in [1..k -> author_fields]} : k \in 0..MaxHits}

FetchAuthorFields ==
    {<<>>, <<n_alb>>, <<n_alcy>>, <<n_alb, n_AlBo>>, <<n_AlBo, n_di>>, <<n_di, n_di>>}

FetchOriginalAuthors ==
    {None, Str(<<>>), Str(<<"a", "l", " ", "c", "y">>), Str(n_alb \o sep_and \o n_di)}

WorkflowAuthorFields == {<<>>, <<n_alb, n_AlBo>>}

WorkflowOriginalAuthors == {None, Str(<<"a", "l", " ", "c", "y">>)}

t_T == <<"T">>
t_t == <<"t">>

\* ' '.join(title.split()).lower()
normalized_title_of(title) == str_lower(str_join(<<" ">>, str_split(title)))

\* A PDF file or a BibTeX entry. title = None: no title could be extracted, no
\* 'title' field; authors = None: no authors extracted, no 'author' field.
Item(exists, title, authors, dblp_source) ==
    [exists |-> exists, title |-> title, authors |-> authors, dblp_source |-> dblp_source]

PdfItems ==
    {Item(FALSE, None, None, FALSE), Item(TRUE, None, None, FALSE),
     Item(TRUE, Str(t_T), None, FALSE)}
    \cup {Item(TRUE, Str(t_t), a, FALSE) : a \in WorkflowOriginalAuthors \ {None}}

NormItems ==
    {Item(TRUE, None, None, FALSE), Item(TRUE, None, None, TRUE),
     Item(TRUE, Str(t_t), None, TRUE)}
    \cup {Item(TRUE, Str(t_t), a, FALSE) : a \in WorkflowOriginalAuthors}

ItemListsOver(pool) == UNION {[1..k -> pool] : k \in 1..MaxItems}

\* ------------------------------------------------------------------------
\* State

VARIABLES
    script,            \* "pdf" (dblp-from-pdf.py), "norm" (dblp-norm.py), "sim" (scorers alone)
    items,             \* pdf_files / bib_database.entries
    existing_titles,   \* process_pdfs: the normalized titles already seen
    idx,               \* processed_count / processed: the number of the current item
    pc,                \* the position of the control
    original_authors,  \* fetch_dblp_entry's argument
    total_matches,     \* fetch_dblp_entry's locals
    hits,
    best_match,        \* the number of the hit in hits, 0 for None
    best_similarity,
    bibtex_url,
    sim_calls,         \* the calls of get_author_similarity made: <<hit number, score>>
    dblp_entry,        \* what fetch_dblp_entry returned
    entries,           \* new_entries / normalized_entries
    count,             \* the counters of the workflow
    failed_pdfs,
    net,               \* the requests issued and the sleeps taken, in order
    written,           \* what the final write put into the output file, <<>> before
    name,              \* normalize_author_name's argument and result
    name_result,
    authors1,          \* get_author_similarity's arguments, the name lists it compares
    authors2,          \* and its result, for each of the two scripts
    compared_pdf,
    compared_norm,
    similarity_pdf,
    similarity_norm,
    similarity_swapped \* dblp-from-pdf.py's result for the arguments in the other order

fetch_vars == <<original_authors, total_matches, hits, best_match, best_similarity,
                bibtex_url, sim_calls, dblp_entry>>
loop_vars == <<existing_titles, entries, count, failed_pdfs, written>>
sim_vars == <<name, name_result, authors1, authors2, compared_pdf, compared_norm,
              similarity_pdf, similarity_norm, similarity_swapped>>
vars == <<script, items, idx, pc, net, fetch_vars, loop_vars, sim_vars>>

Unset == [n |-> -1, d |-> 1]

\* A request of the current item and its outcome; n is the number of hits an
\* answered search reported.
Request(op, u, ok, n) == [op |-> op, item |-> idx, url |-> u, ok |-> ok, n |-> n]

PdfCount == [processed |-> 0, found |-> 0, already_exists |-> 0,
             failed_extraction |-> 0, failed_lookup |-> 0]
NormCount == [processed |-> 0, replaced |-> 0, kept |-> 0, skipped |-> 0, already_dblp |-> 0]

InitFetchVars ==
    /\ original_authors = None
    /\ total_matches = 0
    /\ hits = <<>>
    /\ best_match = 0
    /\ best_similarity = Score(0)
    /\ bibtex_url = 0
    /\ sim_calls = <<>>
    /\ dblp_entry = None

InitSimVars ==
    /\ name = None
    /\ name_result = <<>>
    /\ authors1 = None
    /\ authors2 = None
    /\ compared_pdf = <<>>
    /\ compared_norm = <<>>
    /\ similarity_pdf = Unset
    /\ similarity_norm = Unset
    /\ similarity_swapped = Unset

\* process_pdfs / normalize_bibtex_file before the first item
Init ==
    /\ script \in {"pdf", "norm"}
    /\ items \in ItemListsOver(IF script = "pdf" THEN PdfItems ELSE NormItems)
    /\ existing_titles \in (IF script = "pdf" THEN {{}, {t_t}} ELSE {{}})
    /\ idx = 0
    /\ pc = "loop"
    /\ InitFetchVars
    /\ entries = <<>>
    /\ count = IF script = "pdf" THEN PdfCount ELSE NormCount
    /\ failed_pdfs = <<>>
    /\ net = <<>>
    /\ written = <<>>
    /\ InitSimVars

\* ------------------------------------------------------------------------
\* fetch_dblp_entry

Floor == IF script = "pdf" THEN FLOOR_PDF ELSE FLOOR_NORM

\* best_similarity >= 60 (70 in dblp-norm.py)
good_match(similarity) == score_ge(similarity, Score(Floor))

\* too_low with the floor of dblp-norm.py in both scripts
too_low_at_70(similarity) == score_lt(similarity, Score(FLOOR_NORM))

\* similarity < 60 (70 in dblp-norm.py)
too_low(similarity) == score_lt(similarity, Score(Floor))

\* bibtex_response.text for the URL u, fetched for item i; the entry of item i
\* written back by BibTexWriter
dblp_record(u, i) == [kind |-> "dblp", url |-> u, item |-> i]
original_entry(i) == [kind |-> "orig", url |-> 0, item |-> i]

\* get_author_similarity(original_authors, info['authors']) in dblp-from-pdf.py,
\* get_author_similarity(original_authors, info['authors']['author']) in dblp-norm.py
hit_similarity(authors, info) ==
    IF script = "pdf"
    THEN get_author_similarity_pdf(authors, info.authors)
    ELSE get_author_similarity_norm(authors, dict_get(info.authors, k_author, None))

RECURSIVE scan_hits_last_on_tie(_, _, _, _, _, _)
\* scan_hits with "similarity >= best_similarity": a later hit replaces an equal one
scan_hits_last_on_tie(hs, authors, i, best, best_sim, calls) ==
    IF i > Len(hs) THEN [best_match |-> best, best_similarity |-> best_sim, calls |-> calls]
    ELSE IF hs[i].info.has_authors
    THEN LET similarity == hit_similarity(authors, hs[i].info)
         IN  IF score_ge(similarity, best_sim)
             THEN scan_hits_last_on_tie(hs, authors, i + 1, i, similarity,
                                        Append(calls, <<i, similarity>>))
             ELSE scan_hits_last_on_tie(hs, authors, i + 1, best, best_sim,
                                        Append(calls, <<i, similarity>>))
    ELSE scan_hits_last_on_tie(hs, authors, i + 1, best, best_sim, calls)

RECURSIVE scan_hits_no_skip(_, _, _, _, _, _)
\* scan_hits without the test "'authors' in info": every hit is scored
scan_hits_no_skip(hs, authors, i, best, best_sim, calls) ==
    IF i > Len(hs) THEN [best_match |-> best, best_similarity |-> best_sim, calls |-> calls]
    ELSE LET similarity == hit_similarity(authors, hs[i].info)
         IN  IF score_gt(similarity, best_sim)
             THEN scan_hits_no_skip(hs, authors, i + 1, i, similarity,
                                    Append(calls, <<i, similarity>>))
             ELSE scan_hits_no_skip(hs, authors, i + 1, best, best_sim,
                                    Append(calls, <<i, similarity>>))

RECURSIVE scan_hits(_, _, _, _, _, _)
\* The loop over data['result']['hits']['hit'] from hit i on
scan_hits(hs, authors, i, best, best_sim, calls) ==
    IF i > Len(hs) THEN [best_match |-> best, best_similarity |-> best_sim, calls |-> calls]
    ELSE IF hs[i].info.has_authors
    THEN LET similarity == hit_similarity(authors, hs[i].info)
         IN  IF score_gt(similarity, best_sim)
             THEN scan_hits(hs, authors, i + 1, i, similarity, Append(calls, <<i, similarity>>))
             ELSE scan_hits(hs, authors, i + 1, best, best_sim, Append(calls, <<i, similarity>>))
    ELSE scan_hits(hs, authors, i + 1, best, best_sim, calls)

\* return None
ReturnNone ==
    /\ dblp_entry' = None
    /\ pc' = "returned"

\* requests.get(url) of the search answers: data holds the hits, @total their number
SearchOk(hs) ==
    /\ pc = "search"
    /\ net' = Append(net, Request("search", 0, TRUE, Len(hs)))
    /\ total_matches' = Len(hs)
    /\ hits' = hs
    /\ pc' = "decide"
    /\ UNCHANGED <<script, items, idx, original_authors, best_match, best_similarity,
                   bibtex_url, sim_calls, dblp_entry, loop_vars, sim_vars>>

\* SearchFail without the except clause: the exception leaves fetch_dblp_entry
SearchFailRaises ==
    /\ pc = "search"
    /\ net' = Append(net, Request("search", 0, FALSE, 0))
    /\ pc' = "raised"
    /\ UNCHANGED <<script, items, idx, original_authors, total_matches, hits, best_match,
                   best_similarity, bibtex_url, sim_calls, dblp_entry, loop_vars, sim_vars>>

\* requests.get(url) of the search or raise_for_status raises RequestException
SearchFail ==
    /\ pc = "search"
    /\ net' = Append(net, Request("search", 0, FALSE, 0))
    /\ ReturnNone
    /\ UNCHANGED <<script, items, idx, original_authors, total_matches, hits, best_match,
                   best_similarity, bibtex_url, sim_calls, loop_vars, sim_vars>>

\* DecideNoHits without the test for zero matches: hit[0] of no hits raises, and
\* the exception is no RequestException
DecideNoHitsRaises ==
    /\ pc = "decide"
    /\ total_matches = 0
    /\ pc' = "raised"
    /\ UNCHANGED <<script, items, idx, net, fetch_vars, loop_vars, sim_vars>>

\* total_matches == 0
DecideNoHits ==
    /\ pc = "decide"
    /\ total_matches = 0
    /\ ReturnNone
    /\ UNCHANGED <<script, items, idx, net, original_authors, total_matches, hits,
                   best_match, best_similarity, bibtex_url, sim_calls, loop_vars, sim_vars>>

\* total_matches > 1 and original_authors
DecideBestMatch ==
    /\ pc = "decide"
    /\ total_matches > 1
    /\ truthy(original_authors)
    /\ LET r == scan_hits(hits, original_authors, 1, 0, Score(0), <<>>)
       IN  /\ best_match' = r.best_match
           /\ best_similarity' = r.best_similarity
           /\ sim_calls' = r.calls
           /\ IF good_match(r.best_similarity)
              THEN /\ bibtex_url' = hits[r.best_match].info.url
                   /\ pc' = "fetch"
                   /\ UNCHANGED dblp_entry
              ELSE /\ ReturnNone
                   /\ UNCHANGED bibtex_url
    /\ UNCHANGED <<script, items, idx, net, original_authors, total_matches, hits,
                   loop_vars, sim_vars>>

\* DecideAmbiguous taking the first of the hits instead of skipping
DecideAmbiguousTakesFirst ==
    /\ pc = "decide"
    /\ total_matches > 1
    /\ ~truthy(original_authors)
    /\ bibtex_url' = hits[1].info.url
    /\ pc' = "fetch"
    /\ UNCHANGED <<script, items, idx, net, original_authors, total_matches, hits,
                   best_match, best_similarity, sim_calls, dblp_entry, loop_vars, sim_vars>>

\* total_matches > 1, no original authors
DecideAmbiguous ==
    /\ pc = "decide"
    /\ total_matches > 1
    /\ ~truthy(original_authors)
    /\ ReturnNone
    /\ UNCHANGED <<script, items, idx, net, original_authors, total_matches, hits,
                   best_match, best_similarity, bibtex_url, sim_calls, loop_vars, sim_vars>>

\* the first (and only) match
DecideSingle ==
    /\ pc = "decide"
    /\ total_matches # 0
    /\ ~(total_matches > 1)
    /\ LET info == hits[1].info
       IN  IF truthy(original_authors) /\ info.has_authors
           THEN LET similarity == hit_similarity(original_authors, info)
                IN  /\ sim_calls' = <<<<1, similarity>>>>
                    /\ IF too_low(similarity)
                       THEN /\ ReturnNone
                            /\ UNCHANGED bibtex_url
                       ELSE /\ bibtex_url' = info.url
                            /\ pc' = "fetch"
                            /\ UNCHANGED dblp_entry
           ELSE /\ bibtex_url' = info.url
                /\ pc' = "fetch"
                /\ UNCHANGED <<sim_calls, dblp_entry>>
    /\ UNCHANGED <<script, items, idx, net, original_authors, total_matches, hits,
                   best_match, best_similarity, loop_vars, sim_vars>>

\* requests.get(bibtex_url) answers: return bibtex_response.text
FetchOk ==
    /\ pc = "fetch"
    /\ net' = Append(net, Request("fetch", bibtex_url, TRUE, 0))
    /\ dblp_entry' = dblp_record(bibtex_url, idx)
    /\ pc' = "returned"
    /\ UNCHANGED <<script, items, idx, original_authors, total_matches, hits, best_match,
                   best_similarity, bibtex_url, sim_calls, loop_vars, sim_vars>>

\* FetchFail with one retry of the request
FetchFailRetriesOnce ==
    /\ pc = "fetch"
    /\ net' = Append(net, Request("fetch", bibtex_url, FALSE, 0))
    /\ IF \E k \in DOMAIN net : net[k].op = "fetch" /\ net[k].item = idx
       THEN ReturnNone
       ELSE UNCHANGED <<pc, dblp_entry>>
    /\ UNCHANGED <<script, items, idx, original_authors, total_matches, hits, best_match,
                   best_similarity, bibtex_url, sim_calls, loop_vars, sim_vars>>

\* requests.get(bibtex_url) or raise_for_status raises RequestException
FetchFail ==
    /\ pc = "fetch"
    /\ net' = Append(net, Request("fetch", bibtex_url, FALSE, 0))
    /\ ReturnNone
    /\ UNCHANGED <<script, items, idx, original_authors, total_matches, hits, best_match,
                   best_similarity, bibtex_url, sim_calls, loop_vars, sim_vars>>

\* The call fetch_dblp_entry(title, authors): its locals are fresh
CallFetch(authors) ==
    /\ original_authors' = authors
    /\ total_matches' = 0
    /\ hits' = <<>>
    /\ best_match' = 0
    /\ best_similarity' = Score(0)
    /\ bibtex_url' = 0
    /\ sim_calls' = <<>>
    /\ dblp_entry' = None
    /\ pc' = "search"

\* ------------------------------------------------------------------------
\* process_pdfs (dblp-from-pdf.py)

bump(c, field) == [c EXCEPT ![field] = @ + 1]

NextItem == idx < Len(items) /\ pc = "loop"

\* not pdf_path.exists(): continue
PdfFileNotFound ==
    /\ script = "pdf" /\ NextItem
    /\ ~items[idx + 1].exists
    /\ idx' = idx + 1
    /\ count' = bump(count, "processed")
    /\ failed_pdfs' = Append(failed_pdfs, <<idx + 1, "File not found">>)
    /\ UNCHANGED <<script, items, pc, net, fetch_vars, existing_titles, entries, written,
                   sim_vars>>

\* not title: continue
PdfNoTitle ==
    /\ script = "pdf" /\ NextItem
    /\ items[idx + 1].exists
    /\ ~truthy(items[idx + 1].title)
    /\ idx' = idx + 1
    /\ count' = bump(bump(count, "processed"), "failed_extraction")
    /\ failed_pdfs' = Append(failed_pdfs, <<idx + 1, "Could not extract title">>)
    /\ UNCHANGED <<script, items, pc, net, fetch_vars, existing_titles, entries, written,
                   sim_vars>>

\* normalized_title in existing_titles: continue
PdfAlreadyExists ==
    /\ script = "pdf" /\ NextItem
    /\ items[idx + 1].exists
    /\ truthy(items[idx + 1].title)
    /\ normalized_title_of(items[idx + 1].title.v) \in existing_titles
    /\ idx' = idx + 1
    /\ count' = bump(bump(count, "processed"), "already_exists")
    /\ UNCHANGED <<script, items, pc, net, fetch_vars, existing_titles, entries,
                   failed_pdfs, written, sim_vars>>

\* dblp_entry = fetch_dblp_entry(title, authors)
PdfLookup ==
    /\ script = "pdf" /\ NextItem
    /\ items[idx + 1].exists
    /\ truthy(items[idx + 1].title)
    /\ normalized_title_of(items[idx + 1].title.v) \notin existing_titles
    /\ idx' = idx + 1
    /\ count' = bump(count, "processed")
    /\ CallFetch(items[idx + 1].authors)
    /\ UNCHANGED <<script, items, net, existing_titles, entries, failed_pdfs, written,
                   sim_vars>>

\* PdfFound without existing_titles.add(normalized_title)
PdfFoundForgetsTitle ==
    /\ script = "pdf" /\ pc = "returned"
    /\ dblp_entry # None
    /\ entries' = Append(entries, dblp_entry)
    /\ count' = bump(count, "found")
    /\ pc' = "sleep"
    /\ UNCHANGED <<script, items, idx, net, fetch_vars, existing_titles, failed_pdfs, written,
                   sim_vars>>

\* if dblp_entry: new_entries.append(dblp_entry); existing_titles.add(normalized_title)
PdfFound ==
    /\ script = "pdf" /\ pc = "returned"
    /\ dblp_entry # None
    /\ entries' = Append(entries, dblp_entry)
    /\ existing_titles' = existing_titles \cup {normalized_title_of(items[idx].title.v)}
    /\ count' = bump(count, "found")
    /\ pc' = "sleep"
    /\ UNCHANGED <<script, items, idx, net, fetch_vars, failed_pdfs, written, sim_vars>>

\* PdfNotFound going on to the next file without the delay
PdfNotFoundContinues ==
    /\ script = "pdf" /\ pc = "returned"
    /\ dblp_entry = None
    /\ failed_pdfs' = Append(failed_pdfs, <<idx, "Not found in DBLP">>)
    /\ count' = bump(count, "failed_lookup")
    /\ pc' = "loop"
    /\ UNCHANGED <<script, items, idx, net, fetch_vars, existing_titles, entries, written,
                   sim_vars>>

\* else: failed_pdfs.append((pdf_file, "Not found in DBLP"))
PdfNotFound ==
    /\ script = "pdf" /\ pc = "returned"
    /\ dblp_entry = None
    /\ failed_pdfs' = Append(failed_pdfs, <<idx, "Not found in DBLP">>)
    /\ count' = bump(count, "failed_lookup")
    /\ pc' = "sleep"
    /\ UNCHANGED <<script, items, idx, net, fetch_vars, existing_titles, entries, written,
                   sim_vars>>

\* time.sleep(1)
Sleep ==
    /\ pc = "sleep"
    /\ net' = Append(net, Request("sleep", 0, TRUE, 0))
    /\ pc' = "loop"
    /\ UNCHANGED <<script, items, idx, fetch_vars, loop_vars, sim_vars>>

\* after the loop: update_bib_file(bib_path, new_entries) if new_entries
PdfFinish ==
    /\ script = "pdf" /\ pc = "loop"
    /\ idx = Len(items)
    /\ written' = entries
    /\ pc' = "done"
    /\ UNCHANGED <<script, items, idx, net, fetch_vars, existing_titles, entries, count,
                   failed_pdfs, sim_vars>>

\* ------------------------------------------------------------------------
\* normalize_bibtex_file (dblp-norm.py)

\* NormAlreadyDblp without the append: the entry is left out of the output
NormAlreadyDblpDropsEntry ==
    /\ script = "norm" /\ NextItem
    /\ truthy(items[idx + 1].title)
    /\ items[idx + 1].dblp_source
    /\ idx' = idx + 1
    /\ count' = bump(bump(count, "processed"), "already_dblp")
    /\ UNCHANGED <<script, items, pc, net, fetch_vars, existing_titles, entries, failed_pdfs,
                   written, sim_vars>>

\* 'title' in entry and the entry's bibsource names DBLP: keep, continue
NormAlreadyDblp ==
    /\ script = "norm" /\ NextItem
    /\ truthy(items[idx + 1].title)
    /\ items[idx + 1].dblp_source
    /\ idx' = idx + 1
    /\ entries' = Append(entries, original_entry(idx + 1))
    /\ count' = bump(bump(count, "processed"), "already_dblp")
    /\ UNCHANGED <<script, items, pc, net, fetch_vars, existing_titles, failed_pdfs,
                   written, sim_vars>>

\* dblp_entry = fetch_dblp_entry(title, original_authors)
NormLookup ==
    /\ script = "norm" /\ NextItem
    /\ truthy(items[idx + 1].title)
    /\ ~items[idx + 1].dblp_source
    /\ idx' = idx + 1
    /\ count' = bump(count, "processed")
    /\ CallFetch(items[idx + 1].authors)
    /\ UNCHANGED <<script, items, net, existing_titles, entries, failed_pdfs, written,
                   sim_vars>>

\* if dblp_entry: normalized_entries.append(dblp_entry)
NormReplaced ==
    /\ script = "norm" /\ pc = "returned"
    /\ dblp_entry # None
    /\ entries' = Append(entries, dblp_entry)
    /\ count' = bump(count, "replaced")
    /\ pc' = "sleep"
    /\ UNCHANGED <<script, items, idx, net, fetch_vars, existing_titles, failed_pdfs,
                   written, sim_vars>>

\* else: the original entry is written back
NormKept ==
    /\ script = "norm" /\ pc = "returned"
    /\ dblp_entry = None
    /\ entries' = Append(entries, original_entry(idx))
    /\ count' = bump(count, "kept")
    /\ pc' = "sleep"
    /\ UNCHANGED <<script, items, idx, net, fetch_vars, existing_titles, failed_pdfs,
                   written, sim_vars>>

\* 'title' not in entry: the original entry is written back
NormNoTitle ==
    /\ script = "norm" /\ NextItem
    /\ ~truthy(items[idx + 1].title)
    /\ idx' = idx + 1
    /\ entries' = Append(entries, original_entry(idx + 1))
    /\ count' = bump(bump(count, "processed"), "kept")
    /\ pc' = "sleep"
    /\ UNCHANGED <<script, items, net, fetch_vars, existing_titles, failed_pdfs, written,
                   sim_vars>>

\* after the loop: f.write('\n\n'.join(normalized_entries))
NormFinish ==
    /\ script = "norm" /\ pc = "loop"
    /\ idx = Len(items)
    /\ written' = entries
    /\ pc' = "done"
    /\ UNCHANGED <<script, items, idx, net, fetch_vars, existing_titles, entries, count,
                   failed_pdfs, sim_vars>>

Next ==
    \/ PdfFileNotFound \/ PdfNoTitle \/ PdfAlreadyExists \/ PdfLookup
    \/ PdfFound \/ PdfNotFound \/ PdfFinish
    \/ NormAlreadyDblp \/ NormLookup \/ NormReplaced \/ NormKept \/ NormNoTitle
    \/ NormFinish
    \/ Sleep
    \/ \E hs \in HitListsOver(WorkflowAuthorFields) : SearchOk(hs)
    \/ SearchFail
    \/ DecideNoHits \/ DecideBestMatch \/ DecideAmbiguous \/ DecideSingle
    \/ FetchOk \/ FetchFail

\* The two workflows, each on every list of at most MaxItems items.
Spec == Init /\ [][Next]_vars

\* ------------------------------------------------------------------------
\* One call of fetch_dblp_entry, on every original author value and every answer
\* of the search.

InitFetch ==
    /\ script \in {"pdf", "norm"}
    /\ items = <<>>
    /\ existing_titles = {}
    /\ idx = 0
    /\ pc = "search"
    /\ original_authors \in FetchOriginalAuthors
    /\ total_matches = 0
    /\ hits = <<>>
    /\ best_match = 0
    /\ best_similarity = Score(0)
    /\ bibtex_url = 0
    /\ sim_calls = <<>>
    /\ dblp_entry = None
    /\ entries = <<>>
    /\ count = IF script = "pdf" THEN PdfCount ELSE NormCount
    /\ failed_pdfs = <<>>
    /\ net = <<>>
    /\ written = <<>>
    /\ InitSimVars

NextFetch ==
    \/ \E hs \in HitListsOver(FetchAuthorFields) : SearchOk(hs)
    \/ SearchFail
    \/ DecideNoHits \/ DecideBestMatch \/ DecideAmbiguous \/ DecideSingle
    \/ FetchOk \/ FetchFail

SpecFetch == InitFetch /\ [][NextFetch]_vars

\* ------------------------------------------------------------------------
\* The normalizer and the two scorers alone, on every input of the pools.

SimNames == {n_AlBo, n_alb, n_alcy}

NameLists == UNION {[1..k -> SimNames] : k \in 1..MaxAuthors}

\* The shapes an author list arrives in
as_string(names) == Str(str_join(sep_and, names))
as_list_of_str(names) == List([i \in DOMAIN names |-> Str(names[i])])
as_list_of_records(names) == List([i \in DOMAIN names |-> author_record(names[i])])
as_nested_list(names) == Dict(<< <<k_author, as_list_of_records(names)>> >>)
as_nested_record(nm) == Dict(<< <<k_author, author_record(nm)>> >>)

record_without_text == Dict(<< <<k_pid, Str(<<"1">>)>> >>)
record_with_text_None == Dict(<< <<k_pid, Str(<<"1">>)>>, <<k_text, None>> >>)

NameInputs ==
    {None, record_without_text, record_with_text_None}
    \cup {Str(nm) : nm \in SimNames} \cup {author_record(nm) : nm \in SimNames}

SimAuthors1 ==
    {None, Str(<<>>), List(<<>>)}
    \cup {as_string(l) : l \in NameLists} \cup {as_list_of_str(l) : l \in NameLists}

SimAuthors2 ==
    {None, Str(<<>>), Dict(<< <<k_author, record_without_text>> >>), as_nested_list(<<>>)}
    \cup {as_string(l) : l \in NameLists} \cup {as_list_of_str(l) : l \in NameLists}
    \cup {as_list_of_records(l) : l \in NameLists} \cup {as_nested_list(l) : l \in NameLists}
    \cup {as_nested_record(nm) : nm \in SimNames} \cup {author_record(nm) : nm \in SimNames}

InitSim ==
    /\ script = "sim"
    /\ items = <<>>
    /\ existing_titles = {}
    /\ idx = 0
    /\ InitFetchVars
    /\ entries = <<>>
    /\ count = PdfCount
    /\ failed_pdfs = <<>>
    /\ net = <<>>
    /\ written = <<>>
    /\ name_result = <<>>
    /\ compared_pdf = <<>>
    /\ compared_norm = <<>>
    /\ similarity_pdf = Unset
    /\ similarity_norm = Unset
    /\ similarity_swapped = Unset
    /\ \/ /\ pc = "name"
          /\ name \in NameInputs
          /\ authors1 = None
          /\ authors2 = None
       \/ /\ pc = "score"
          /\ name = None
          /\ authors1 \in SimAuthors1
          /\ authors2 \in SimAuthors2

\* normalize_author_name(name)
Normalize ==
    /\ pc = "name"
    /\ name_result' = normalize_author_name(name)
    /\ pc' = "done"
    /\ UNCHANGED <<script, items, idx, net, fetch_vars, loop_vars, name, authors1, authors2,
                   compared_pdf, compared_norm, similarity_pdf, similarity_norm,
                   similarity_swapped>>

\* get_author_similarity(authors1, authors2) of dblp-from-pdf.py
ScorePdf ==
    /\ pc = "score"
    /\ similarity_pdf = Unset
    /\ similarity_pdf' = get_author_similarity_pdf(authors1, authors2)
    /\ compared_pdf' = IF ~truthy(authors1) \/ ~truthy(authors2) THEN <<>>
                       ELSE <<split_and_normalize(authors1), authors2_names_pdf(authors2)>>
    /\ UNCHANGED <<script, items, idx, pc, net, fetch_vars, loop_vars, name, name_result,
                   authors1, authors2, compared_norm, similarity_norm, similarity_swapped>>

\* get_author_similarity(authors2, authors1) of dblp-from-pdf.py, called after
\* get_author_similarity(authors1, authors2)
ScorePdfSwapped ==
    /\ pc = "score"
    /\ similarity_pdf # Unset
    /\ similarity_swapped = Unset
    /\ similarity_swapped' = get_author_similarity_pdf(authors2, authors1)
    /\ UNCHANGED <<script, items, idx, pc, net, fetch_vars, loop_vars, name, name_result,
                   authors1, authors2, compared_pdf, compared_norm, similarity_pdf,
                   similarity_norm>>

\* get_author_similarity(authors1, authors2) of dblp-norm.py
ScoreNorm ==
    /\ pc = "score"
    /\ similarity_norm = Unset
    /\ similarity_norm' = get_author_similarity_norm(authors1, authors2)
    /\ compared_norm' = IF ~truthy(authors1) \/ ~truthy(authors2) THEN <<>>
                        ELSE <<split_and_normalize(authors1), authors2_names_norm(authors2)>>
    /\ UNCHANGED <<script, items, idx, pc, net, fetch_vars, loop_vars, name, name_result,
                   authors1, authors2, compared_pdf, similarity_pdf, similarity_swapped>>

NextSim == Normalize \/ ScorePdf \/ ScoreNorm \/ ScorePdfSwapped

SpecSim == InitSim /\ [][NextSim]_vars

\* ------------------------------------------------------------------------
\* Properties of fetch_dblp_entry

Searches(i) == {k \in DOMAIN net : net[k].op = "search" /\ net[k].item = i}
Fetches(i) == {k \in DOMAIN net : net[k].op = "fetch" /\ net[k].item = i}

\* The search of the current call was answered and the decision has been taken.
Decided == pc \in {"fetch", "returned"} /\ \E k \in Searches(idx) : net[k].ok

\* The decision was to fetch the record behind the URL u / to fetch some record.
AcceptedUrl(u) ==
    /\ pc = "fetch" \/ Fetches(idx) # {}
    /\ pc = "fetch" => bibtex_url = u
    /\ \A k \in Fetches(idx) : net[k].url = u
Accepted == pc = "fetch" \/ Fetches(idx) # {}

\* The result is None and no record was fetched.
Rejected == pc = "returned" /\ dblp_entry = None /\ Fetches(idx) = {}

ClaimFloor == IF script = "pdf" THEN 60 ELSE 70

HitsWithAuthors == {i \in DOMAIN hits : hits[i].info.has_authors}

\* C1: with more than one hit reported and original authors present, every hit
\* with an author field is scored, and only those; a hit is accepted if and only
\* if the maximum of the scores is at least the floor of the script (60 for PDF
\* ingestion, 70 for normalization); the accepted hit is the earliest hit whose
\* score is the maximum; otherwise the result is None and nothing is fetched.
C1_BestMatchDecision ==
    (Decided /\ total_matches > 1 /\ truthy(original_authors)) =>
        LET hit_of(k) == sim_calls[k][1]
            score_of(k) == sim_calls[k][2]
            is_max(k) == \A j \in DOMAIN sim_calls : score_ge(score_of(k), score_of(j))
        IN  /\ {hit_of(k) : k \in DOMAIN sim_calls} = HitsWithAuthors
            /\ Len(sim_calls) = Cardinality(HitsWithAuthors)
            /\ \A k \in DOMAIN sim_calls :
                  score_of(k) = hit_similarity(original_authors, hits[hit_of(k)].info)
            /\ Accepted <=> \E k \in DOMAIN sim_calls :
                               is_max(k) /\ score_ge(score_of(k), Score(ClaimFloor))
            /\ Accepted => \E k \in DOMAIN sim_calls :
                              /\ is_max(k)
                              /\ \A j \in 1..(k - 1) : ~is_max(j)
                              /\ best_match = hit_of(k)
                              /\ AcceptedUrl(hits[hit_of(k)].info.url)
            /\ ~Accepted => Rejected

\* Two hits tie at the maximum, which reaches the floor: the first one is fetched.
C1_Witness ==
    /\ Decided /\ total_matches > 1 /\ truthy(original_authors)
    /\ Len(sim_calls) = 2
    /\ sim_calls[1][2] = sim_calls[2][2]
    /\ \E k \in Fetches(idx) : net[k].url = hits[1].info.url /\ net[k].ok

\* C2: with exactly one hit reported, the hit is accepted without any similarity
\* being computed when the original authors are absent or the hit has no author
\* field; otherwise it is accepted if and only if the similarity is at least the
\* floor of the script, and a rejection returns None without a fetch.
C2_SingleHitDecision ==
    (Decided /\ total_matches = 1) =>
        IF ~truthy(original_authors) \/ ~hits[1].info.has_authors
        THEN AcceptedUrl(hits[1].info.url) /\ sim_calls = <<>>
        ELSE LET sim == hit_similarity(original_authors, hits[1].info)
             IN  /\ sim_calls = <<<<1, sim>>>>
                 /\ Accepted <=> score_ge(sim, Score(ClaimFloor))
                 /\ Accepted => AcceptedUrl(hits[1].info.url)
                 /\ ~Accepted => Rejected

\* PDF ingestion fetches the only hit on a similarity below 70.
C2_Witness ==
    /\ Decided /\ total_matches = 1 /\ script = "pdf"
    /\ sim_calls # <<>>
    /\ score_lt(sim_calls[1][2], Score(70))
    /\ \E k \in Fetches(idx) : net[k].url = hits[1].info.url

\* C3: with more than one hit reported and the original authors absent (None or
\* empty), the result is None: no hit is scored or chosen and nothing is fetched.
C3_AmbiguousRejected ==
    (Decided /\ total_matches > 1 /\ ~truthy(original_authors)) =>
        /\ Rejected
        /\ best_match = 0
        /\ bibtex_url = 0
        /\ sim_calls = <<>>

\* Several hits with author fields, the original authors the empty string.
C3_Witness ==
    /\ Decided /\ total_matches > 1
    /\ original_authors = Str(<<>>)
    /\ HitsWithAuthors = DOMAIN hits
    /\ pc = "returned"

\* C5: in the scan of several hits a hit without an author field is skipped (it
\* is not scored and not chosen, and the scan ends in a decision); when no hit has an
\* author field the maximum stays 0 and the result is None with nothing fetched.
C5_HitsWithoutAuthorsSkipped ==
    (Decided /\ total_matches > 1 /\ truthy(original_authors)) =>
        /\ \A i \in DOMAIN hits \ HitsWithAuthors :
              /\ \A k \in DOMAIN sim_calls : sim_calls[k][1] # i
              /\ best_match # i
              /\ pc = "fetch" => bibtex_url # hits[i].info.url
              /\ \A k \in Fetches(idx) : net[k].url # hits[i].info.url
        /\ HitsWithAuthors = {} => (best_similarity = Score(0) /\ Rejected)

\* A hit without an author field comes first and the hit after it is fetched.
C5_Witness ==
    /\ Decided /\ total_matches > 1 /\ truthy(original_authors)
    /\ ~hits[1].info.has_authors
    /\ \E k \in Fetches(idx) : net[k].url = hits[2].info.url

\* ------------------------------------------------------------------------
\* Properties of the workflow loops

\* The search of item i was answered with zero hits.
ZeroHits(i) == \E k \in Searches(i) : net[k].ok /\ net[k].n = 0

\* The positions of the control in a run that no exception has ended.
LoopPositions == {"loop", "search", "decide", "fetch", "returned", "sleep", "done"}

\* The loop is through with item i.
Finished(i) == i < idx \/ (i = idx /\ pc \in {"sleep", "loop", "done"})

\* C4: an item whose search reports zero hits gets None and no fetch; it stays
\* unmatched (PDF ingestion adds no entry for it and lists it as not found,
\* normalization writes its original entry at its place), and the loop goes on:
\* the control stays in the loop (no exception ends the run), and when the run is done
\* every item was processed and the entries were written.
C4_ZeroHitsLeftUnmatched ==
    \A i \in 1..idx : ZeroHits(i) =>
        /\ pc \in LoopPositions
        /\ pc = "done" => (idx = Len(items) /\ count.processed = Len(items)
                              /\ written = entries)
        /\ Fetches(i) = {}
        /\ (i = idx /\ pc = "returned") => dblp_entry = None
        /\ Finished(i) =>
              IF script = "pdf"
              THEN /\ \A k \in DOMAIN entries : entries[k].item # i
                   /\ <<i, "Not found in DBLP">> \in Range(failed_pdfs)
              ELSE entries[i] = original_entry(i)

\* The run is done, an item had zero hits and a later item got its record.
C4_Witness ==
    /\ pc = "done"
    /\ \E i \in 1..idx : /\ ZeroHits(i)
                         /\ \E j \in (i + 1)..idx : \E k \in Fetches(j) : net[k].ok

\* ------------------------------------------------------------------------
\* Properties of the normalizer and the scorers

\* The input shapes of an author list: a delimiter-joined string, a flat list of
\* strings or records, a nested {author: list-or-single-record} container.
FlatShape(a) == a.t \in {"str", "list"}
NestedShape(a) == a.t = "dict" /\ dict_has(a, k_author)

\* The authors of an author list, one entry (a string or a record) for each
AuthorsOf(a) ==
    CASE a.t = "str" ->
           LET parts == str_split_sep(a.v, sep_and) IN [i \in DOMAIN parts |-> Str(parts[i])]
      [] a.t = "list" -> a.v
      [] NestedShape(a) ->
           LET au == dict_get(a, k_author, None) IN IF au.t = "list" THEN au.v ELSE <<au>>
      [] OTHER -> <<a>>

\* The display text of an author: the string itself, the 'text' of a record
DisplayText(author) ==
    IF author.t = "dict" THEN str_value(dict_get(author, k_text, Str(<<>>))) ELSE author.v

\* A string lowercased, its whitespace runs collapsed to one space, trimmed
Canonical(s) == str_join(<<" ">>, str_split(str_lower(s)))

\* The normalized names of an author list
ExpectedNames(a) ==
    LET authors == AuthorsOf(a) IN [i \in DOMAIN authors |-> Canonical(DisplayText(authors[i]))]

\* C6: every name the scorer compares, on either side and in every accepted input
\* shape, is the normalized display text of that author (lowercased, whitespace
\* runs collapsed, trimmed).
C6_ComparedNamesNormalized ==
    /\ (compared_pdf # <<>> /\ (FlatShape(authors2) \/ NestedShape(authors2))) =>
           compared_pdf = <<ExpectedNames(authors1), ExpectedNames(authors2)>>
    /\ (compared_norm # <<>> /\ (FlatShape(authors2) \/ NestedShape(authors2))) =>
           compared_norm = <<ExpectedNames(authors1), ExpectedNames(authors2)>>

\* The absent inputs of normalize_author_name: None, a record without a display
\* text, a record whose display text is None
AbsentName(n) == n.t = "None" \/ (n.t = "dict" /\ dict_get(n, k_text, None).t = "None")

\* C7: normalize_author_name returns the empty string on absent input.
C7_AbsentNameGivesEmpty ==
    (pc = "done" /\ AbsentName(name)) => name_result = <<>>

\* The single-author rule on two names
SingleAuthorScore(n1, n2) ==
    LET f == token_sort_ratio(n1, n2)
    IN  IF n1 = n2 THEN Score(100)
        ELSE IF str_contains(n1, n2) \/ str_contains(n2, n1) THEN Score(90)
        ELSE IF f > 60 THEN Score(f) ELSE Score(0)

\* C8: in the scorer of dblp-from-pdf.py, when each side has exactly one name, the
\* score is that of the single-author rule on the normalized names: 100 if equal,
\* else 90 if one contains the other, else f if f > 60, else 0; so it is never in 1..60.
C8_SingleAuthorOnNormalizedNames ==
    (/\ similarity_pdf # Unset /\ truthy(authors1) /\ truthy(authors2)
     /\ FlatShape(authors2) \/ NestedShape(authors2)
     /\ Len(ExpectedNames(authors1)) = 1 /\ Len(ExpectedNames(authors2)) = 1) =>
        /\ similarity_pdf = SingleAuthorScore(ExpectedNames(authors1)[1],
                                              ExpectedNames(authors2)[1])
        /\ ~(score_ge(similarity_pdf, Score(1)) /\ score_ge(Score(60), similarity_pdf))

Computed == similarity_pdf # Unset /\ similarity_norm # Unset

BestScore(n, names) ==
    IF names = <<>> THEN 0
    ELSE LET scores == {token_sort_ratio(n, names[j]) : j \in DOMAIN names}
         IN  CHOOSE m \in scores : \A x \in scores : x <= m

RECURSIVE SumTo(_, _, _)
SumTo(k, names1, names2) ==
    IF k = 0 THEN 0 ELSE BestScore(names1[k], names2) + SumTo(k - 1, names1, names2)

\* The arithmetic mean, over the names of list1, of each name's best score
MeanOfBest(names1, names2) == Frac(SumTo(Len(names1), names1, names2), Len(names1))

\* The score C10 states for two author lists
MeanScore(a1, a2) ==
    IF ~truthy(a1) \/ ~truthy(a2) \/ ExpectedNames(a1) = <<>> \/ ExpectedNames(a2) = <<>>
    THEN Score(0)
    ELSE MeanOfBest(ExpectedNames(a1), ExpectedNames(a2))

\* Either side has more than one name, or a side is empty.
MeanCase(a1, a2) ==
    \/ ~truthy(a1) \/ ~truthy(a2)
    \/ Len(ExpectedNames(a1)) # 1 \/ Len(ExpectedNames(a2)) # 1

\* C10: when either side has more than one name the score is the mean, over the
\* names of list1, of each name's best fuzzy token-sort score against the names of
\* list2, without a floor, and 0 when either list is empty. The candidate side is
\* a string, a flat list or a nested container in dblp-from-pdf.py and whatever
\* info['authors']['author'] holds in dblp-norm.py.
C10_MeanOfBestScores ==
    /\ (similarity_pdf # Unset /\ MeanCase(authors1, authors2)
        /\ (~truthy(authors2) \/ FlatShape(authors2) \/ NestedShape(authors2))) =>
           similarity_pdf = MeanScore(authors1, authors2)
    /\ (similarity_norm # Unset /\ MeanCase(authors1, authors2)
        /\ ~NestedShape(authors2)) =>
           similarity_norm = MeanScore(authors1, authors2)

\* C11: for single-author lists whose normalized names are equal or of which one
\* contains the other, the scorer of dblp-from-pdf.py returns the same score with
\* the two sides swapped: 100 for equal names, 90 for containment.
C11_SingleAuthorSymmetric ==
    (/\ similarity_pdf # Unset /\ similarity_swapped # Unset
     /\ truthy(authors1) /\ truthy(authors2) /\ FlatShape(authors1) /\ FlatShape(authors2)
     /\ Len(ExpectedNames(authors1)) = 1 /\ Len(ExpectedNames(authors2)) = 1) =>
        LET n1 == ExpectedNames(authors1)[1]
            n2 == ExpectedNames(authors2)[1]
        IN  /\ n1 = n2 => (similarity_pdf = Score(100) /\ similarity_swapped = Score(100))
            /\ (n1 # n2 /\ (str_contains(n1, n2) \/ str_contains(n2, n1))) =>
                   (similarity_pdf = Score(90) /\ similarity_swapped = Score(90))

\* The original name contains the candidate's, which does not contain the
\* original one, and both orders score 90.
C11_Witness ==
    /\ similarity_pdf = Score(90) /\ similarity_swapped = Score(90)
    /\ FlatShape(authors1) /\ FlatShape(authors2)
    /\ Len(ExpectedNames(authors1)) = 1 /\ Len(ExpectedNames(authors2)) = 1
    /\ str_contains(ExpectedNames(authors1)[1], ExpectedNames(authors2)[1])
    /\ ~str_contains(ExpectedNames(authors2)[1], ExpectedNames(authors1)[1])

\* ------------------------------------------------------------------------
\* Properties of the requests

\* The hit the decision of the current call accepts, 0 for a rejection; read
\* from the answer of the search and the scores, not from the requests.
AcceptedHit ==
    IF ~\E k \in Searches(idx) : net[k].ok THEN 0
    ELSE IF total_matches = 0 THEN 0
    ELSE IF total_matches > 1
    THEN IF truthy(original_authors) /\ score_ge(best_similarity, Score(ClaimFloor))
         THEN best_match ELSE 0
    ELSE IF sim_calls # <<>> /\ score_lt(sim_calls[1][2], Score(ClaimFloor)) THEN 0 ELSE 1

\* C12: within the resolution of one title exactly one search is issued, and it
\* precedes any fetch; at most one fetch is issued, only after the decision, only
\* when the decision accepts a hit and only for the URL of that hit; a rejected
\* title issues no fetch.
C12_SearchPrecedesFetch ==
    /\ \A i \in 1..idx :
          /\ Cardinality(Searches(i)) <= 1
          /\ Cardinality(Fetches(i)) <= 1
          /\ \A f \in Fetches(i) : \E q \in Searches(i) : q < f /\ net[q].ok
    /\ pc \in {"decide", "fetch", "returned"} => Cardinality(Searches(idx)) = 1
    /\ pc \in {"search", "decide"} => Fetches(idx) = {}
    /\ pc \in {"fetch", "returned"} =>
          IF AcceptedHit = 0
          THEN pc = "returned" /\ Fetches(idx) = {} /\ dblp_entry = None
          ELSE /\ pc = "fetch" => (bibtex_url = hits[AcceptedHit].info.url /\ Fetches(idx) = {})
               /\ pc = "returned" => Cardinality(Fetches(idx)) = 1
               /\ \A f \in Fetches(idx) : net[f].url = hits[AcceptedHit].info.url

\* The second of two hits was accepted, and its record was fetched after the search.
C12_Witness ==
    /\ pc = "returned" /\ AcceptedHit = 2
    /\ \E f \in Fetches(idx) : \E q \in Searches(idx) :
          q < f /\ net[f].url = hits[2].info.url /\ net[f].ok

Requests == {k \in DOMAIN net : net[k].op \in {"search", "fetch"}}

\* C13: between the requests of two title resolutions there is a delay: a search
\* of an item is never issued after a request of another item without a sleep in
\* between, whether the earlier item ended in a match, a rejection or a network error.
C13_DelayBetweenResolutions ==
    \A a \in Requests : \A b \in Requests :
        (a < b /\ net[b].op = "search" /\ net[a].item # net[b].item) =>
            \E c \in (a + 1)..(b - 1) : net[c].op = "sleep"

\* A request of one item failed, and a sleep came before the search of a later item.
C13_Witness ==
    \E a \in Requests : \E b \in Requests :
        /\ a < b /\ net[b].op = "search" /\ net[a].item # net[b].item
        /\ ~net[a].ok
        /\ \E c \in (a + 1)..(b - 1) : net[c].op = "sleep"

\* A request of item i failed.
FailedRequest(i) == \E k \in Requests : net[k].item = i /\ ~net[k].ok

\* C14: a failed search or fetch of one item does not end the batch: the item gets
\* no DBLP entry (PDF ingestion lists it as not found, normalization keeps its
\* original entry), the later items are processed, and what was resolved for the
\* other items is written.
C14_NetworkFailureNotFatal ==
    \A i \in 1..idx : FailedRequest(i) =>
        /\ pc \in LoopPositions
        /\ (i = idx /\ pc = "returned") => dblp_entry = None
        /\ Finished(i) =>
              IF script = "pdf"
              THEN /\ \A k \in DOMAIN entries : entries[k].item # i
                   /\ <<i, "Not found in DBLP">> \in Range(failed_pdfs)
              ELSE entries[i] = original_entry(i)
        /\ pc = "done" =>
              /\ idx = Len(items) /\ count.processed = Len(items)
              /\ written = entries
              /\ \A j \in 1..idx : \A k \in Fetches(j) :
                    net[k].ok => dblp_record(net[k].url, j) \in Range(written)

\* The fetch of the first item failed, the second item was resolved and its
\* record written.
C14_Witness ==
    /\ pc = "done" /\ idx = 2
    /\ \E k \in Fetches(1) : ~net[k].ok
    /\ \E k \in Fetches(2) : net[k].ok /\ dblp_record(net[k].url, 2) \in Range(written)

\* ------------------------------------------------------------------------
\* Properties of the workflow state

\* The normalized title of item i, which has a title
TitleOf(i) == normalized_title_of(items[i].title.v)

\* One step of a PDF-ingestion run keeps the seen titles: none is removed, one is
\* added only together with the entry of the resolved item, and an item whose
\* title is in the set is passed over without a request and without an entry.
SeenTitlesStep ==
    script = "pdf" =>
        /\ existing_titles \subseteq existing_titles'
        /\ existing_titles' # existing_titles =>
              /\ pc = "returned" /\ dblp_entry # None /\ idx' = idx
              /\ existing_titles' = existing_titles \cup {TitleOf(idx)}
              /\ entries' = Append(entries, dblp_entry)
        /\ entries' # entries =>
              /\ \E k \in Fetches(idx) : net[k].ok
              /\ TitleOf(idx) \in existing_titles'
        /\ (/\ idx' = idx + 1 /\ items[idx'].exists /\ truthy(items[idx'].title)
            /\ TitleOf(idx') \in existing_titles) =>
              net' = net /\ entries' = entries /\ pc' = "loop"

\* The entries added so far belong to items of different normalized titles, all
\* of them seen.
OneEntryPerTitle ==
    script = "pdf" =>
        /\ \A k \in DOMAIN entries : TitleOf(entries[k].item) \in existing_titles
        /\ \A k \in DOMAIN entries : \A l \in DOMAIN entries :
              TitleOf(entries[k].item) = TitleOf(entries[l].item) => k = l

\* C15: in a PDF-ingestion run the set of seen normalized titles only grows, a
\* title is added exactly when its item is resolved, an item whose normalized
\* title is in the set (from the bibliography file or from an earlier item) issues
\* no request and adds no entry, and at most one entry is added for a normalized title.
C15_SeenTitlesAppendOnly == []OneEntryPerTitle /\ [][SeenTitlesStep]_vars

\* The first file was resolved, and the second one, whose title differs from the
\* first one's in case only, was passed over without a request.
C15_Witness ==
    /\ script = "pdf" /\ idx = 2 /\ pc = "loop"
    /\ items[1].title # items[2].title
    /\ Len(entries) = 1 /\ entries[1].item = 1
    /\ TitleOf(2) \in existing_titles
    /\ Searches(2) = {}
    /\ count.already_exists = 1

\* The number of input entries the loop of normalize_bibtex_file is through with
Processed == IF pc \in {"search", "decide", "fetch", "returned"} THEN idx - 1 ELSE idx

\* C16: in the normalization workflow, after k input entries normalized_entries
\* holds k items in input order, the i-th one the DBLP record fetched for entry i
\* or entry i re-serialized, and already_dblp + replaced + kept = k; an entry that
\* is already from DBLP or has no title is kept without a request.
C16_NoEntryLostOrReordered ==
    script = "norm" =>
        /\ Len(entries) = Processed
        /\ count.already_dblp + count.replaced + count.kept = Processed
        /\ count.processed = idx
        /\ \A i \in 1..Processed :
              \/ entries[i] = original_entry(i)
              \/ \E f \in Fetches(i) : net[f].ok /\ entries[i] = dblp_record(net[f].url, i)
        /\ \A i \in 1..idx : (items[i].dblp_source \/ ~truthy(items[i].title)) =>
              /\ Searches(i) = {} /\ Fetches(i) = {}
              /\ i <= Processed /\ entries[i] = original_entry(i)
        /\ pc = "done" => (Processed = Len(items) /\ written = entries)

\* The first entry was replaced by its DBLP record, the second one came from DBLP
\* already, and both were written in this order.
C16_Witness ==
    /\ script = "norm" /\ pc = "done" /\ idx = 2
    /\ count.replaced = 1 /\ count.already_dblp = 1
    /\ \E f \in Fetches(1) : written[1] = dblp_record(net[f].url, 1)
    /\ written[2] = original_entry(2)

====
